---- MODULE Spec2Model ----
(***************************************************************************)
(* Model of the flow-field demo (src/src/main.rs): one-time setup, the     *)
(* per-frame bind-group preparation and the "compute" render-graph node,   *)
(* together with the host facilities they talk to (resource extraction,    *)
(* render assets, pipeline cache, command submission).                     *)
(***************************************************************************)
EXTENDS Integers, Sequences, FiniteSets, TLC

\* ------------------------------------------------------------ constants

SIZE_0 == 1280

SIZE_1 == 720

WORKGROUP_SIZE == 256

\* floor((2^32 - 1) / a) for a >= 2, computed without leaving the checker's
\* integer range: 2^32 - 1 = 2 * H + 1 with H = 2^31 - 1.
U32MaxDiv(a) ==
  LET H == 2147483647
      q == H \div a
      r == H % a
  IN 2 * q + ((2 * r + 1) \div a)

\* a * b does not wrap in u32 arithmetic (a and b are u32 values).
MulFitsU32(a, b) == a <= 1 \/ b <= U32MaxDiv(a)

\* u32 multiplication and division as the constant expressions use them.
MulU32(a, b) == a * b

DivU32(a, b) == a \div b

NR_PARTICLES == MulU32(WORKGROUP_SIZE, 128)

NR_PIXELS == MulU32(SIZE_0, SIZE_1)

\* Size in bytes of the energy buffer created by setup.
EnergyBufferSize == MulU32(MulU32(4, SIZE_0), SIZE_1)

\* Workgroup counts of the three dispatches.
UpdateGroups == <<DivU32(NR_PARTICLES, WORKGROUP_SIZE), 1, 1>>

\* A plausible slip: dividing by a workgroup edge the image height is no multiple of.
ClearGroups_Coarse == <<DivU32(SIZE_0, 32), DivU32(SIZE_1, 32), 1>>

ClearGroups == <<DivU32(SIZE_0, 16), DivU32(SIZE_1, 16), 1>>

DrawGroups == <<DivU32(SIZE_0, 16), DivU32(SIZE_1, 16), 1>>

\* Shader definitions handed to every pipeline descriptor.
ShaderDefs ==
  [NR_PARTICLES |-> NR_PARTICLES, NR_PIXELS |-> NR_PIXELS, SCREEN_WIDTH |-> SIZE_0]

\* ------------------------------------------------------------ bounds

\* Number of distinguishable contents of a GPU resource.
DataValues == 2

Data == 0 .. (DataValues - 1)

\* ------------------------------------------------------------ types

\* An absent resource or handle record (Option::None).
None == [none |-> TRUE]

\* An absent pipeline.
NoPipeline == "None"

\* The three queued compute pipelines, in the order from_world queues them.
QueueOrder == <<"update", "draw", "clear">>

Pipelines == {QueueOrder[i] : i \in 1 .. Len(QueueOrder)}

\* CachedPipelineState, without the payloads.
PipelineStates == {"Queued", "Ok", "Err"}

\* The bind group layout: binding index -> how the shader may access it.
BindGroupLayout ==
  [b \in 0 .. 2 |->
     IF b = 0 THEN [kind |-> "StorageTexture", read |-> TRUE, write |-> TRUE]
     ELSE [kind |-> "StorageBuffer", read |-> TRUE, write |-> TRUE]]

VARIABLES
  pc,          \* position in the frame schedule
  panicked,    \* "none", or the function whose unwrap aborted the process
  ready,       \* ComputeNode.ready
  cache,       \* PipelineCache: pipeline -> CachedPipelineState
  resources,   \* every image/buffer ever created, indexed by its handle
  mainWorld,   \* ComputeInput and ParticleBuffer of the main world
  renderWorld, \* their extracted copies in the render world
  gpuImages,   \* RenderAssets<Image>: handles that have a GPU image
  bindGroup,   \* the ComputeBindGroup resource, or None
  encoder      \* dispatches recorded into this frame's command encoder

vars ==
  <<pc, panicked, ready, cache, resources, mainWorld, renderWorld, gpuImages,
    bindGroup, encoder>>

\* ------------------------------------------------------------ helpers

\* A freshly created image or buffer.
NewImage(w, h) ==
  [kind |-> "image", width |-> w, height |-> h, data |-> 0]

NewBuffer(size, d) ==
  [kind |-> "buffer", size |-> size, data |-> d]

\* get_compute_pipeline: Some(pipeline) exactly when the cached state is Ok.
GetComputePipeline(p) == IF cache[p] = "Ok" THEN p ELSE NoPipeline

\* A plausible slip: the two storage buffers bound the other way round.
BindGroupEntries_Swapped(view, pb) ==
  [b \in 0 .. 2 |->
     IF b = 0 THEN view ELSE IF b = 1 THEN pb.energies ELSE pb.particles]

\* The entries prepare_bind_group passes to create_bind_group.
BindGroupEntries(view, pb) ==
  [b \in 0 .. 2 |->
     IF b = 0 THEN view ELSE IF b = 1 THEN pb.particles ELSE pb.energies]

\* Resources a bind group lets a shader read, and lets it write.
Sources(bg) == {bg.entries[b] : b \in {x \in 0 .. 2 : bg.layout[x].read}}

Destinations(bg) == {bg.entries[b] : b \in {x \in 0 .. 2 : bg.layout[x].write}}

\* The compute pass API used by run.
BeginComputePass ==
  [bind_groups |-> [i \in 0 .. 3 |-> None], pipeline |-> NoPipeline, dispatches |-> <<>>]

SetBindGroup(pass, index, bg) == [pass EXCEPT !.bind_groups[index] = bg]

SetPipeline(pass, p) == [pass EXCEPT !.pipeline = p]

DispatchWorkgroups(pass, groups) ==
  [pass EXCEPT !.dispatches =
     Append(@, [pipeline |-> pass.pipeline, bind_groups |-> pass.bind_groups,
                groups |-> groups])]

\* A plausible slip: dispatching in the order the pipelines were queued.
RecordPass_QueueOrder(bg, update_program, clear_program, draw_program) ==
  LET p0 == SetBindGroup(BeginComputePass, 0, bg)
      p1 == DispatchWorkgroups(SetPipeline(p0, update_program), UpdateGroups)
      p2 == DispatchWorkgroups(SetPipeline(p1, draw_program), DrawGroups)
      p3 == DispatchWorkgroups(SetPipeline(p2, clear_program), ClearGroups)
  IN p3.dispatches

\* The body of run after the unwraps: one pass, three dispatches.
RecordPass(bg, update_program, clear_program, draw_program) ==
  LET p0 == SetBindGroup(BeginComputePass, 0, bg)
      p1 == DispatchWorkgroups(SetPipeline(p0, update_program), UpdateGroups)
      p2 == DispatchWorkgroups(SetPipeline(p1, clear_program), ClearGroups)
      p3 == DispatchWorkgroups(SetPipeline(p2, draw_program), DrawGroups)
  IN p3.dispatches

\* All dispatches of the frame's encoder, in recording order.
RECURSIVE Flatten(_)
Flatten(passes) ==
  IF passes = <<>> THEN <<>> ELSE Head(passes) \o Flatten(Tail(passes))

Dispatches == Flatten(encoder)

\* Handles a recorded dispatch may write: the writable entries of group 0.
WrittenBy(d) ==
  IF d.bind_groups[0] = None THEN {} ELSE Destinations(d.bind_groups[0])

Written == UNION {WrittenBy(Dispatches[i]) : i \in 1 .. Len(Dispatches)}

\* The process has aborted: every unwrap failure ends here.
Panic(where) ==
  /\ pc' = "aborted"
  /\ panicked' = where

\* ------------------------------------------------------------ initial state

\* After ComputePlugin::build and finish: the node is registered with
\* ready = false and the three pipelines are queued; nothing is allocated.
Init ==
  /\ pc = "startup"
  /\ panicked = "none"
  /\ ready = FALSE
  /\ cache = [p \in Pipelines |-> "Queued"]
  /\ resources = <<>>
  /\ mainWorld = [input |-> None, particles |-> None]
  /\ renderWorld = [input |-> None, particles |-> None]
  /\ gpuImages = {}
  /\ bindGroup = None
  /\ encoder = <<>>

\* ------------------------------------------------------------ actions

\* setup: allocates the image and the two buffers and publishes their handles.
Setup ==
  /\ pc = "startup"
  /\ \E d \in Data :
       LET image == Len(resources) + 1
           particle_storage == Len(resources) + 2
           energy_storage == Len(resources) + 3
       IN /\ resources' =
               resources \o <<NewImage(SIZE_0, SIZE_1),
                              NewBuffer(NR_PARTICLES, d),
                              NewBuffer(EnergyBufferSize, 0)>>
          /\ mainWorld' =
               [input |-> [dst_image |-> image],
                particles |-> [particles |-> particle_storage,
                               energies |-> energy_storage]]
  /\ pc' = "extract"
  /\ UNCHANGED <<panicked, ready, cache, renderWorld, gpuImages, bindGroup, encoder>>

\* Asset watching: the shader file changed, every pipeline built from it is
\* queued again.
ShaderReload ==
  /\ pc = "extract"
  /\ \E p \in Pipelines : cache[p] # "Queued"
  /\ cache' = [p \in Pipelines |-> "Queued"]
  /\ UNCHANGED <<pc, panicked, ready, resources, mainWorld, renderWorld, gpuImages,
                 bindGroup, encoder>>

\* Start of a frame: the extract-resource plugins copy ComputeInput and
\* ParticleBuffer into the render world; last frame's bind group grows old.
Extract ==
  /\ pc = "extract"
  /\ renderWorld' = mainWorld
  /\ bindGroup' = IF bindGroup = None THEN None ELSE [bindGroup EXCEPT !.age = 1]
  /\ pc' = "assets"
  /\ UNCHANGED <<panicked, ready, cache, resources, mainWorld, gpuImages, encoder>>

\* The host prepares the GPU image of the extracted handle ...
PrepareAssets ==
  /\ pc = "assets"
  /\ gpuImages' = gpuImages \union {renderWorld.input.dst_image}
  /\ pc' = "prepare"
  /\ UNCHANGED <<panicked, ready, cache, resources, mainWorld, renderWorld,
                 bindGroup, encoder>>

\* ... or puts the preparation off to a later frame.
PrepareAssetsRetry ==
  /\ pc = "assets"
  /\ pc' = "prepare"
  /\ UNCHANGED <<panicked, ready, cache, resources, mainWorld, renderWorld,
                 gpuImages, bindGroup, encoder>>

\* A plausible slip: a missing GPU image skips the frame's bind group.
PrepareBindGroup_Skip ==
  /\ pc = "prepare"
  /\ IF renderWorld.input.dst_image \notin gpuImages
     THEN /\ pc' = "queue"
          /\ UNCHANGED <<panicked, bindGroup>>
     ELSE /\ bindGroup' =
               [layout |-> BindGroupLayout,
                entries |-> BindGroupEntries(renderWorld.input.dst_image,
                                             renderWorld.particles),
                age |-> 0]
          /\ pc' = "queue"
          /\ UNCHANGED panicked
  /\ UNCHANGED <<ready, cache, resources, mainWorld, renderWorld, gpuImages, encoder>>

\* A plausible slip: the bind group is built once and kept.
PrepareBindGroup_Cached ==
  /\ pc = "prepare"
  /\ IF renderWorld.input.dst_image \notin gpuImages
     THEN /\ Panic("prepare_bind_group")
          /\ UNCHANGED bindGroup
     ELSE /\ bindGroup' =
               IF bindGroup # None THEN bindGroup
               ELSE [layout |-> BindGroupLayout,
                     entries |-> BindGroupEntries(renderWorld.input.dst_image,
                                                  renderWorld.particles),
                     age |-> 0]
          /\ pc' = "queue"
          /\ UNCHANGED panicked
  /\ UNCHANGED <<ready, cache, resources, mainWorld, renderWorld, gpuImages, encoder>>

\* A plausible slip: the energy buffer is allocated again in every frame.
PrepareBindGroup_Realloc ==
  /\ pc = "prepare"
  /\ IF renderWorld.input.dst_image \notin gpuImages
     THEN /\ Panic("prepare_bind_group")
          /\ UNCHANGED <<bindGroup, resources>>
     ELSE /\ resources' = Append(resources, NewBuffer(EnergyBufferSize, 0))
          /\ bindGroup' =
               [layout |-> BindGroupLayout,
                entries |-> BindGroupEntries(renderWorld.input.dst_image,
                              [particles |-> renderWorld.particles.particles,
                               energies |-> Len(resources) + 1]),
                age |-> 0]
          /\ pc' = "queue"
          /\ UNCHANGED panicked
  /\ Len(resources) < 6
  /\ UNCHANGED <<ready, cache, mainWorld, renderWorld, gpuImages, encoder>>

\* prepare_bind_group: unwraps the GPU image, builds the bind group from the
\* extracted handles and inserts it as the ComputeBindGroup resource.
PrepareBindGroup ==
  /\ pc = "prepare"
  /\ IF renderWorld.input.dst_image \notin gpuImages
     THEN /\ Panic("prepare_bind_group")
          /\ UNCHANGED bindGroup
     ELSE /\ bindGroup' =
               [layout |-> BindGroupLayout,
                entries |-> BindGroupEntries(renderWorld.input.dst_image,
                                             renderWorld.particles),
                age |-> 0]
          /\ pc' = "queue"
          /\ UNCHANGED panicked
  /\ UNCHANGED <<ready, cache, resources, mainWorld, renderWorld, gpuImages, encoder>>

\* The pipeline cache works on its queue before the render graph runs: every
\* queued pipeline stays queued, becomes Ok or becomes Err.
ProcessQueue(states) ==
  /\ pc = "queue"
  /\ \E out \in [Pipelines -> states] :
       /\ \A p \in Pipelines : cache[p] # "Queued" => out[p] = cache[p]
       /\ cache' = out
  /\ pc' = "update"
  /\ UNCHANGED <<panicked, ready, resources, mainWorld, renderWorld, gpuImages,
                 bindGroup, encoder>>

\* A plausible slip: only the update pipeline is waited for.
NodeUpdate_OnlyUpdate ==
  /\ pc = "update"
  /\ ready' = IF ~ready THEN (IF cache["update"] = "Ok" THEN TRUE ELSE ready)
              ELSE ready
  /\ pc' = "run"
  /\ UNCHANGED <<panicked, cache, resources, mainWorld, renderWorld, gpuImages,
                 bindGroup, encoder>>

\* ComputeNode::update
NodeUpdate ==
  /\ pc = "update"
  /\ ready' =
       IF ~ready
       THEN (IF cache["update"] = "Ok"
             THEN (IF cache["draw"] = "Ok" THEN TRUE ELSE ready)
             ELSE ready)
       ELSE ready
  /\ pc' = "run"
  /\ UNCHANGED <<panicked, cache, resources, mainWorld, renderWorld, gpuImages,
                 bindGroup, encoder>>

\* A plausible slip: a pipeline that is not available is left out of the pass
\* instead of being unwrapped.
NodeRun_Partial ==
  /\ pc = "run"
  /\ IF ~ready
     THEN /\ pc' = "submit"
          /\ UNCHANGED <<panicked, encoder>>
     ELSE IF bindGroup = None
     THEN /\ Panic("run")
          /\ UNCHANGED encoder
     ELSE /\ encoder' =
               Append(encoder,
                 SelectSeq(RecordPass(bindGroup, GetComputePipeline("update"),
                                      GetComputePipeline("clear"),
                                      GetComputePipeline("draw")),
                           LAMBDA d : d.pipeline # NoPipeline))
          /\ pc' = "submit"
          /\ UNCHANGED panicked
  /\ UNCHANGED <<ready, cache, resources, mainWorld, renderWorld, gpuImages, bindGroup>>

\* ComputeNode::run
NodeRun ==
  /\ pc = "run"
  /\ IF ~ready
     THEN /\ pc' = "submit"
          /\ UNCHANGED <<panicked, encoder>>
     ELSE IF \/ bindGroup = None
             \/ GetComputePipeline("update") = NoPipeline
             \/ GetComputePipeline("clear") = NoPipeline
             \/ GetComputePipeline("draw") = NoPipeline
     THEN /\ Panic("run")
          /\ UNCHANGED encoder
     ELSE /\ encoder' =
               Append(encoder,
                 RecordPass(bindGroup, GetComputePipeline("update"),
                            GetComputePipeline("clear"),
                            GetComputePipeline("draw")))
          /\ pc' = "submit"
          /\ UNCHANGED panicked
  /\ UNCHANGED <<ready, cache, resources, mainWorld, renderWorld, gpuImages, bindGroup>>

\* End of the frame: the host submits the encoder; every recorded dispatch
\* may rewrite whatever its bind group lets it write.
Submit ==
  /\ pc = "submit"
  /\ \E d \in [Written -> Data] :
       resources' =
         [i \in 1 .. Len(resources) |->
            IF i \in Written THEN [resources[i] EXCEPT !.data = d[i]]
            ELSE resources[i]]
  /\ encoder' = <<>>
  /\ pc' = "extract"
  /\ UNCHANGED <<panicked, ready, cache, mainWorld, renderWorld, gpuImages, bindGroup>>

Next ==
  \/ Setup
  \/ ShaderReload
  \/ Extract
  \/ PrepareAssets
  \/ PrepareAssetsRetry
  \/ PrepareBindGroup
  \/ ProcessQueue(PipelineStates)
  \/ NodeUpdate
  \/ NodeRun
  \/ Submit

Spec == Init /\ [][Next]_vars

\* The same program when the host never defers the image, no shader is
\* edited and no compilation fails: frames go on for ever and every queued
\* pipeline is eventually compiled, in any order.
FairNext ==
  \/ Setup
  \/ Extract
  \/ PrepareAssets
  \/ PrepareBindGroup
  \/ ProcessQueue({"Queued", "Ok"})
  \/ NodeUpdate
  \/ NodeRun
  \/ Submit

\* The cache finishes pipeline p while working on its queue.
CompilesOk(p) ==
  /\ ProcessQueue({"Queued", "Ok"})
  /\ cache'[p] = "Ok"

FairSpec ==
  /\ Init
  /\ [][FairNext]_vars
  /\ WF_vars(FairNext)
  /\ \A p \in Pipelines : SF_vars(CompilesOk(p))

\* ------------------------------------------------------------ properties

\* The pipelines of the recorded dispatches, in order.
RecordedPipelines == [i \in 1 .. Len(Dispatches) |-> Dispatches[i].pipeline]

\* C1, as stated: once run has run in a frame, between one and three
\* dispatches are recorded.
C1_OneToThreeDispatches ==
  pc = "submit" => Len(Dispatches) \in 1 .. 3

\* C1, amended: run records either no dispatch (node not ready, or an unwrap
\* aborted) or exactly three; when it returns, three exactly when ready.
C1_ZeroOrThreeDispatches ==
  /\ Len(Dispatches) \in {0, 3}
  /\ pc = "submit" => (Len(Dispatches) = 3 <=> ready)
  /\ pc = "aborted" => Len(Dispatches) = 0

C1_Witness == pc = "submit" /\ ready /\ Len(Dispatches) = 3

\* C2, as stated: what a dispatch may read (source) and what it may write
\* (destination) are different resources.
C2_SourceDestinationDistinct ==
  bindGroup # None => Sources(bindGroup) \cap Destinations(bindGroup) = {}

\* C2, amended: every frame binds the same three pairwise different
\* resources (image at 0, particle buffer at 1, energy buffer at 2), and each
\* of them is bound for reading and writing alike.
C2_SameBindingsEveryFrame ==
  bindGroup # None =>
    /\ bindGroup.entries[0] = mainWorld.input.dst_image
    /\ bindGroup.entries[1] = mainWorld.particles.particles
    /\ bindGroup.entries[2] = mainWorld.particles.energies
    /\ Cardinality({bindGroup.entries[b] : b \in 0 .. 2}) = 3
    /\ resources[bindGroup.entries[0]].kind = "image"
    /\ Sources(bindGroup) = {bindGroup.entries[b] : b \in 0 .. 2}
    /\ Destinations(bindGroup) = Sources(bindGroup)

\* ready is set, so the bind group just prepared is at least the second one.
C2_Witness == pc = "queue" /\ ready /\ bindGroup # None /\ bindGroup.age = 0

\* A host lookup that the next step of the schedule unwraps would fail.
LookupFails ==
  \/ pc = "prepare" /\ renderWorld.input.dst_image \notin gpuImages
  \/ pc = "run" /\ ready /\ \E p \in Pipelines : cache[p] # "Ok"

\* C3: a failed lookup aborts the process, and once aborted nothing is
\* prepared, dispatched or changed any more.
C3_FailedLookupIsFatal ==
  [][/\ LookupFails => pc' = "aborted" /\ panicked' # "none" /\ encoder' = <<>>
     /\ pc = "aborted" => UNCHANGED vars]_vars

C3_Witness == pc = "aborted" /\ panicked = "prepare_bind_group" /\ bindGroup = None

\* C4: the three resources are created once, by setup; afterwards no step
\* creates or replaces them, and their contents change only when the frame's
\* recorded dispatches are executed, so never in a frame without dispatches.
C4_ResourcesOnlyChangedByDispatch ==
  [][/\ pc = "startup" => resources = <<>> /\ Len(resources') = 3
     /\ pc # "startup" =>
          /\ Len(resources') = Len(resources)
          /\ mainWorld' = mainWorld
          /\ \A i \in 1 .. Len(resources) :
               /\ resources'[i].kind = resources[i].kind
               /\ resources'[i].data # resources[i].data =>
                    pc = "submit" /\ Dispatches # <<>> /\ i \in Written
     /\ pc = "submit" /\ ~ready => resources' = resources]_vars

\* The energy buffer starts zeroed: a dispatch has rewritten it.
C4_Witness ==
  /\ Len(resources) = 3
  /\ resources[mainWorld.particles.energies].data # 0
  /\ pc = "extract"

\* C5: a frame with dispatches has exactly three, in one pass, in the order
\* update, clear, draw, all with the frame's bind group at index 0.
C5_UpdateClearDraw ==
  Dispatches # <<>> =>
    /\ Len(encoder) = 1
    /\ RecordedPipelines = <<"update", "clear", "draw">>
    /\ \A i \in 1 .. Len(Dispatches) :
         /\ Dispatches[i].bind_groups[0] = bindGroup
         /\ \A j \in 1 .. 3 : Dispatches[i].bind_groups[j] = None

C5_Witness == Len(encoder) = 1 /\ Len(encoder[1]) = 3

\* C6: from prepare_bind_group to the end of the frame the ComputeBindGroup
\* resource exists, was made in this frame from this frame's extracted
\* handles, and is the one every recorded dispatch uses.
C6_BindGroupPreparedThisFrame ==
  /\ pc \in {"queue", "update", "run", "submit"} =>
       /\ bindGroup # None
       /\ bindGroup.age = 0
       /\ bindGroup.entries =
            BindGroupEntries(renderWorld.input.dst_image, renderWorld.particles)
       /\ bindGroup.layout = BindGroupLayout
  /\ \A i \in 1 .. Len(Dispatches) :
       Dispatches[i].bind_groups[0] = bindGroup /\ bindGroup.age = 0

\* A frame later than the first in which run passed the ready check.
C6_Witness ==
  pc = "submit" /\ Dispatches # <<>> /\ resources[mainWorld.input.dst_image].data # 0

\* C7, as stated: when run gets past the ready check, all three pipelines
\* are available.
C7_AllPipelinesAvailable ==
  pc = "run" /\ ready => \A p \in Pipelines : GetComputePipeline(p) # NoPipeline

\* C8: ready starts false, is set only by an update that sees the update and
\* the draw pipeline Ok, is never cleared, and while it is false run returns
\* with nothing recorded.
C8_ReadyLatch ==
  /\ ~ready
  /\ [][/\ ready => ready'
        /\ ~ready /\ ready' =>
             pc = "update" /\ cache["update"] = "Ok" /\ cache["draw"] = "Ok"
        /\ pc = "run" /\ ~ready =>
             encoder = <<>> /\ encoder' = <<>> /\ pc' = "submit" /\ panicked' = "none"]_vars

C8_Witness == ready /\ pc = "run" /\ cache["clear"] = "Ok"

\* C9, as stated: the node becomes ready and stays so, and frames with the
\* full update, clear, draw sequence keep coming, none of them short.
C9_EventuallyRunsEveryFrame ==
  /\ <>[](ready /\ panicked = "none")
  /\ []<>(pc = "submit" /\ RecordedPipelines = <<"update", "clear", "draw">>)
  /\ [](pc = "submit" /\ ready => Len(Dispatches) = 3)

\* C10: the dispatch sizes and the energy buffer cover the data exactly and
\* none of the products wraps.
C10_DispatchSizesCoverData ==
  /\ Dispatches # <<>> =>
       /\ MulU32(Dispatches[1].groups[1], WORKGROUP_SIZE) = NR_PARTICLES
       /\ NR_PARTICLES = 32768
       /\ Dispatches[1].groups[2] = 1 /\ Dispatches[1].groups[3] = 1
       /\ \A i \in {2, 3} :
            /\ MulU32(Dispatches[i].groups[1], 16) = 1280
            /\ MulU32(Dispatches[i].groups[2], 16) = 720
            /\ MulU32(Dispatches[i].groups[1], 16)
                 = resources[Dispatches[i].bind_groups[0].entries[0]].width
            /\ MulU32(Dispatches[i].groups[2], 16)
                 = resources[Dispatches[i].bind_groups[0].entries[0]].height
            /\ Dispatches[i].groups[3] = 1
  /\ resources # <<>> =>
       /\ resources[mainWorld.particles.energies].size = 4 * ShaderDefs.NR_PIXELS
       /\ resources[mainWorld.particles.particles].size = ShaderDefs.NR_PARTICLES
       /\ ShaderDefs.NR_PIXELS
            = resources[mainWorld.input.dst_image].width
                * resources[mainWorld.input.dst_image].height
       /\ ShaderDefs.SCREEN_WIDTH = resources[mainWorld.input.dst_image].width
  /\ MulFitsU32(WORKGROUP_SIZE, 128)
  /\ MulFitsU32(SIZE_0, SIZE_1)
  /\ MulFitsU32(4, SIZE_0)
  /\ MulFitsU32(MulU32(4, SIZE_0), SIZE_1)

C10_Witness ==
  /\ pc = "submit"
  /\ Len(Dispatches) = 3
  /\ Dispatches[2].groups = <<80, 45, 1>>
  /\ resources[3].size = 3686400

====
